---- MODULE Spec2Model ----
(***************************************************************************)
(* Model of SierpinskyPeanoCurve.py: the pattern library (Pattern), the    *)
(* curve assembler (Steinhaus) and the command-line entry point.           *)
(*                                                                         *)
(* Coordinates are exact dyadic rationals.  A coordinate v of the program  *)
(* is held as the integer v * One, with One = 2^(MaxLevel+1); every seed   *)
(* coordinate is a multiple of 1/4, so every value the program computes    *)
(* up to level MaxLevel is an integer here and is exact in IEEE doubles.   *)
(* A node address (a Python str of digits) is a sequence of one-character  *)
(* strings; a dict is a function; a dict keyed by 1..n is a sequence.      *)
(***************************************************************************)
EXTENDS Integers, Sequences, FiniteSets, TLC

\* ------------------------------------------------------------------ bounds
MaxLevel == 3
\* how many depths below 1 are tried: 0, -1, ...
InvalidLevels == 2

RECURSIVE Pow2(_)
Pow2(e) == IF e <= 0 THEN 1 ELSE 2 * Pow2(e - 1)

One == Pow2(MaxLevel + 1)
Quarter == One \div 4

Min(a, b) == IF a <= b THEN a ELSE b

Abs(a) == IF a < 0 THEN 0 - a ELSE a

\* Seeds, in quarters: the default seed of Pattern/Steinhaus/__main__, a
\* four-point seed, a seed whose Y is one short, and a two-point seed.
DefaultSeed == [X |-> <<-2, -2, -3>>, Y |-> <<0, 1, 2>>]

Seeds ==
  { DefaultSeed,
    [X |-> <<-2, -1, -2, -3>>, Y |-> <<0, 1, 1, 2>>],
    [X |-> <<-2, -2, -3>>, Y |-> <<0, 1>>],
    [X |-> <<-2, -3>>, Y |-> <<0, 2>>] }

InUnits(s) == [i \in DOMAIN s |-> s[i] * Quarter]

Levels == (1 - InvalidLevels)..MaxLevel

\* ------------------------------------------------------- Python primitives
Digits == <<"0", "1", "2", "3", "4", "5", "6", "7", "8", "9">>

\* str(k) for a one-digit k
str(k) == Digits[k + 1]

\* int(c) for a one-character string c
int(c) == CHOOSE d \in 0..9 : Digits[d + 1] = c

\* range(a, b)
range(a, b) == a..(b - 1)

\* np.flipud on a one-dimensional array
flipud(s) == [i \in 1..Len(s) |-> s[Len(s) + 1 - i]]

\* unary minus on an array
Neg(s) == [i \in 1..Len(s) |-> 0 - s[i]]

\* s[0:-1]
DropLast(s) == SubSeq(s, 1, Len(s) - 1)

\* s[-1], s[-2]
Last(s) == s[Len(s)]
Last2(s) == s[Len(s) - 1]

EmptyDict == <<>>

\* dict.update: the entries of new replace those of d
Update_lost(d, new) == new
Update(d, new) ==
  [k \in (DOMAIN d) \cup (DOMAIN new) |-> IF k \in DOMAIN new THEN new[k] ELSE d[k]]

\* -------------------------------------------------------- geometry utilities
\* symmetrize: mirror image of the points zip(X, Y) over a*x + b*y + c = 0;
\* c is in program units.  2*xl - x, with den = 1/(a^2 + b^2).
symmetrize(a, b, c, X, Y) ==
  LET N == Min(Len(X), Len(Y))
      d == a * a + b * b
      xl2(i) == (2 * (b * b * X[i] - a * b * Y[i] - a * c * One)) \div d
      yl2(i) == (2 * ((0 - a) * b * X[i] + a * a * Y[i] - b * c * One)) \div d
  IN  << [i \in 1..N |-> xl2(i) - X[i]], [i \in 1..N |-> yl2(i) - Y[i]] >>

\* generateSymmetries: fills entries 2, 3, 4 of the dicts DX, DY from entry 1
generateSymmetries_noneg(DX1, DY1) ==
  [X |-> << DX1, flipud(Neg(DX1)), flipud(DX1), flipud(Neg(DX1)) >>,
   Y |-> << DY1, flipud(DY1), flipud(DY1), flipud(Neg(DY1)) >>]
generateSymmetries(DX1, DY1) ==
  [X |-> << DX1, flipud(Neg(DX1)), flipud(DX1), flipud(Neg(DX1)) >>,
   Y |-> << DY1, flipud(DY1), flipud(Neg(DY1)), flipud(Neg(DY1)) >>]

\* getOffset: i is the zero-based position, as in enumerate(key)
OffsetScale_wide(i) == One \div Pow2(i)
OffsetScale(i) == One \div Pow2(i + 1)

RECURSIVE getOffsetLoop(_, _, _)
getOffsetLoop(key, i, acc) ==
  IF i >= Len(key) THEN acc
  ELSE LET scale == OffsetScale(i)
           k == int(key[i + 1])
           ox == IF k % 2 = 1 THEN acc[1] - scale ELSE acc[1] + scale
           oy == IF k < 3 THEN acc[2] + scale ELSE acc[2] - scale
       IN  getOffsetLoop(key, i + 1, <<ox, oy>>)

getOffset(key) == getOffsetLoop(key, 0, <<0, 0>>)

\* ------------------------------------------------------------ Pattern library
NoPattern ==
  [pattern_X |-> <<>>, pattern_Y |-> <<>>, patternS_X |-> <<>>,
   patternS_Y |-> <<>>, patternE_X |-> <<>>, patternE_Y |-> <<>>]

\* Pattern.__init__
PatternInit(rootX, rootY) ==
  LET s1 == symmetrize(-1, -1, 0, rootX, rootY)
      P  == generateSymmetries(rootX \o flipud(s1[1]), rootY \o flipud(s1[2]))
      s2 == symmetrize(1, -1, 1, DropLast(rootX), DropLast(rootY))
      S  == generateSymmetries(DropLast(rootX) \o flipud(s2[1]),
                               DropLast(rootY) \o flipud(s2[2]))
      s3 == symmetrize(1, 1, 0, S.X[1], S.Y[1])
      E  == generateSymmetries(s3[1], s3[2])
  IN  [pattern_X |-> P.X, pattern_Y |-> P.Y, patternS_X |-> S.X,
       patternS_Y |-> S.Y, patternE_X |-> E.X, patternE_Y |-> E.Y]

\* ------------------------------------------------------------ Curve assembler
\* scale*p + offset, scale = 1.0/2**(level-1)
Transform(p, lvl, off) ==
  LET den == Pow2(lvl - 1)
  IN  [i \in 1..Len(p) |-> (p[i] \div den) + off]

\* the test of Steinhaus.get
IsConnector_seamOnly(id, idParent, nParent) == id = 5 - idParent
IsConnector(id, idParent, nParent) ==
  (id = 5 - idParent) \/ (nParent = 2 /\ idParent = id)

\* Steinhaus.get: <<list of X arrays, list of Y arrays>>
get(pat, id, idParent, lvl, off, nParent) ==
  IF IsConnector(id, idParent, nParent)
  THEN << << Transform(pat.patternS_X[id], lvl, off[1]),
             Transform(pat.patternE_X[id], lvl, off[1]) >>,
          << Transform(pat.patternS_Y[id], lvl, off[2]),
             Transform(pat.patternE_Y[id], lvl, off[2]) >> >>
  ELSE << << Transform(pat.pattern_X[id], lvl, off[1]) >>,
          << Transform(pat.pattern_Y[id], lvl, off[2]) >> >>

\* Steinhaus.getFromKey
getFromKey(pat, key, nParent) ==
  get(pat, int(Last(key)), int(Last2(key)), Len(key), getOffset(DropLast(key)), nParent)

\* {str(k): self.get(k) for k in range(1,5)}
RootIds == range(1, 5)

Level1_seam(pat) ==
  [key \in {<<str(k)>> : k \in RootIds} |-> get(pat, int(key[1]), 4, 1, <<0, 0>>, 1)]
Level1(pat) ==
  [key \in {<<str(k)>> : k \in RootIds} |-> get(pat, int(key[1]), 0, 1, <<0, 0>>, 1)]

\* key + str(k)
ChildKey_short(key, k) == <<Last(key), str(k)>>
ChildKey(key, k) == Append(key, str(k))

ChildIds_three == range(1, 4)
ChildIds == range(1, 5)

\* {key+str(k): self.getFromKey(key+str(k), len(lines[0])) for k in range(1,5)};
\* a later k replaces an earlier one on an equal key
RECURSIVE ChildrenFrom(_, _, _, _, _)
ChildrenFrom(pat, key, nParent, k, acc) ==
  IF k \notin ChildIds THEN acc
  ELSE LET ck == ChildKey(key, k)
       IN  ChildrenFrom(pat, key, nParent, k + 1,
                        Update(acc, [c \in {ck} |-> getFromKey(pat, ck, nParent)]))

Children(pat, key, nParent) == ChildrenFrom(pat, key, nParent, 1, EmptyDict)

\* self.lines[level] = {}
NewLevel_keepOnePrevious(l, m) ==
  [j \in (DOMAIN l) \cup {m} |-> IF j = m \/ j < m - 1 THEN EmptyDict ELSE l[j]]
NewLevel(l, m) ==
  [j \in (DOMAIN l) \cup {m} |-> IF j = m THEN EmptyDict ELSE l[j]]

\* one iteration of the loop of generateLevel, for the item (key, lines)
LevelStep(pat, l, m, key) ==
  [l EXCEPT ![m] = Update(@, Children(pat, key, Len(l[m - 1][key][1])))]

\* the orders the dict of level m-1 may be iterated in: its addresses sorted
\* digit by digit, under any of the 24 orders of the digits 1..4 (every
\* order of the four addresses of level 1)
DigitOrders == Permutations(1..4)

IncreasingDigits == [d \in 1..4 |-> d]

\* the address read as a number, its digits 1..4 replaced by their places
RECURSIVE KeyRank(_, _)
KeyRank(key, perm) ==
  IF key = <<>> THEN 0
  ELSE LET d == int(Last(key))
       IN  10 * KeyRank(DropLast(key), perm) + (IF d \in DOMAIN perm THEN perm[d] ELSE d)

RECURSIVE SortInts(_)
SortInts(R) ==
  IF R = {} THEN <<>>
  ELSE LET lo == CHOOSE r \in R : \A q \in R : r <= q
       IN  <<lo>> \o SortInts(R \ {lo})

RECURSIVE SetToSeq(_)
SetToSeq(T) ==
  IF T = {} THEN <<>>
  ELSE LET x == CHOOSE y \in T : TRUE IN <<x>> \o SetToSeq(T \ {x})

\* the addresses of S in increasing rank
SortKeys(S, perm) ==
  LET rank == [x \in S |-> KeyRank(x, perm)]
      byRank == [r \in {rank[x] : x \in S} |-> {x \in S : rank[x] = r}]
      ranks == SortInts(DOMAIN byRank)
      RECURSIVE Flatten(_)
      Flatten(i) ==
        IF i > Len(ranks) THEN <<>>
        ELSE SetToSeq(byRank[ranks[i]]) \o Flatten(i + 1)
  IN  Flatten(1)

Orders(S) == {SortKeys(S, perm) : perm \in DigitOrders}

\* ------------------------------------------- the run in increasing key order
RECURSIVE GenInOrder(_, _, _, _)
GenInOrder(pat, l, m, ord) ==
  IF ord = <<>> THEN l
  ELSE GenInOrder(pat, LevelStep(pat, l, m, Head(ord)), m, Tail(ord))

RECURSIVE RunFrom(_, _, _, _)
RunFrom(pat, l, m, lvl) ==
  IF m \notin range(2, lvl + 1) THEN l
  ELSE RunFrom(pat, GenInOrder(pat, NewLevel(l, m), m, SortKeys(DOMAIN l[m - 1], IncreasingDigits)),
               m + 1, lvl)

\* Steinhaus(lvl, rootX, rootY).lines when every dict is iterated in
\* increasing order of its keys
SortedRun(rootX, rootY, lvl) ==
  LET pat == PatternInit(rootX, rootY)
  IN  RunFrom(pat, << Level1(pat) >>, 2, lvl)

\* --------------------------------------------------------------------- state
VARIABLES rootPattern_X, rootPattern_Y, level, pc, raised, pattern, lines, n, todo

vars == <<rootPattern_X, rootPattern_Y, level, pc, raised, pattern, lines, n, todo>>

Init ==
  /\ \E s \in Seeds :
       /\ rootPattern_X = InUnits(s.X)
       /\ rootPattern_Y = InUnits(s.Y)
  /\ level \in Levels
  /\ pc \in {"main", "Steinhaus"}
  /\ raised = "none"
  /\ pattern = NoPattern
  /\ lines = <<>>
  /\ n = 2
  /\ todo = <<>>

\* __main__: the two lists differ in length
MainReject ==
  /\ pc = "main"
  /\ Len(rootPattern_X) # Len(rootPattern_Y)
  /\ pc' = "raised"
  /\ raised' = "Exception"
  /\ UNCHANGED <<rootPattern_X, rootPattern_Y, level, pattern, lines, n, todo>>

\* __main__ -> main -> Steinhaus(...)
MainCall ==
  /\ pc = "main"
  /\ Len(rootPattern_X) = Len(rootPattern_Y)
  /\ pc' = "Steinhaus"
  /\ UNCHANGED <<rootPattern_X, rootPattern_Y, level, raised, pattern, lines, n, todo>>

\* Steinhaus.__init__: self.level = level; self.pattern = Pattern(...)
Construct ==
  /\ pc = "Steinhaus"
  /\ pattern' = PatternInit(rootPattern_X, rootPattern_Y)
  /\ pc' = "level1"
  /\ UNCHANGED <<rootPattern_X, rootPattern_Y, level, raised, lines, n, todo>>

\* self.lines = {1: {...}}
SeedLevel1 ==
  /\ pc = "level1"
  /\ lines' = << Level1(pattern) >>
  /\ n' = 2
  /\ pc' = "loop"
  /\ UNCHANGED <<rootPattern_X, rootPattern_Y, level, raised, pattern, todo>>

\* generateLevel(n): self.lines[n] = {} and the start of the iteration
BeginLevel ==
  /\ pc = "loop"
  /\ n \in range(2, level + 1)
  /\ lines' = NewLevel(lines, n)
  /\ todo' \in Orders(DOMAIN lines[n - 1])
  /\ pc' = "iter"
  /\ UNCHANGED <<rootPattern_X, rootPattern_Y, level, raised, pattern, n>>

\* one iteration of generateLevel's loop; after the last one, the next n
IterStep ==
  /\ pc = "iter"
  /\ todo # <<>>
  /\ lines' = LevelStep(pattern, lines, n, Head(todo))
  /\ todo' = Tail(todo)
  /\ IF Len(todo) = 1
     THEN pc' = "loop" /\ n' = n + 1
     ELSE pc' = "iter" /\ n' = n
  /\ UNCHANGED <<rootPattern_X, rootPattern_Y, level, raised, pattern>>

\* range(2, self.level+1) is exhausted: the constructor returns
Finish ==
  /\ pc = "loop"
  /\ n \notin range(2, level + 1)
  /\ pc' = "done"
  /\ UNCHANGED <<rootPattern_X, rootPattern_Y, level, raised, pattern, lines, n, todo>>

Next ==
  \/ MainReject
  \/ MainCall
  \/ Construct
  \/ SeedLevel1
  \/ BeginLevel
  \/ IterStep
  \/ Finish

Spec == Init /\ [][Next]_vars

\* ------------------------------------------------------------ shared notions
\* level m is complete: generateLevel(m) has returned (level 1: it is seeded)
Built(m) == m \in DOMAIN lines /\ ~(pc = "iter" /\ m = n)

DigitChars == {"1", "2", "3", "4"}

\* a node holding two polylines (connector-start and connector-end)
IsJunction(node) == Len(node[1]) = 2

IsStrictPrefix(A, B) == Len(A) < Len(B) /\ SubSeq(B, 1, Len(A)) = A

\* ------------------------------------------------------------------------ C1
\* C1: for every level m >= 2, every address A of level m-1 and digit k, the
\* node A+k that generateLevel has built is a connector junction, holding the
\* connector-start and connector-end patterns of orientation k at the scale
\* of level m and the offset of A, exactly when k = 5 - last(A), or A is
\* itself a junction and k = last(A); otherwise it holds exactly the one
\* plain pattern of orientation k.  Once level m is built no A+k is missing.
C1_Disambiguation ==
  \A m \in DOMAIN lines : m >= 2 =>
    /\ \A B \in DOMAIN lines[m] :
         DropLast(B) \in DOMAIN lines[m - 1] /\ Last(B) \in DigitChars
    /\ Built(m) =>
         \A A \in DOMAIN lines[m - 1] : \A c \in DigitChars :
            Append(A, c) \in DOMAIN lines[m]
    /\ \A A \in DOMAIN lines[m - 1] :
         LET ip == int(Last(A))
             off == getOffset(A)
             den == Pow2(m - 1)
             Placed(q, p, d) ==
               Len(q) = Len(p) /\ \A i \in 1..Len(p) : q[i] = (p[i] \div den) + d
         IN  \A k \in 1..4 :
               LET B == Append(A, Digits[k + 1])
                   node == lines[m][B]
                   seam == (k = 5 - ip) \/ (IsJunction(lines[m - 1][A]) /\ k = ip)
               IN  B \in DOMAIN lines[m] =>
                     /\ IsJunction(node) <=> seam
                     /\ Len(node) = 2 /\ Len(node[1]) = Len(node[2])
                     /\ seam =>
                          /\ Placed(node[1][1], pattern.patternS_X[k], off[1])
                          /\ Placed(node[1][2], pattern.patternE_X[k], off[1])
                          /\ Placed(node[2][1], pattern.patternS_Y[k], off[2])
                          /\ Placed(node[2][2], pattern.patternE_Y[k], off[2])
                     /\ ~seam =>
                          /\ Len(node[1]) = 1
                          /\ Placed(node[1][1], pattern.pattern_X[k], off[1])
                          /\ Placed(node[2][1], pattern.pattern_Y[k], off[2])

\* a finished run of depth >= 3 with a seam junction ("14"), a continued seam
\* ("144"), and plain nodes beside them ("11", "142")
C1_Witness ==
  /\ pc = "done"
  /\ level >= 3
  /\ IsJunction(lines[2][<<"1", "4">>])
  /\ IsJunction(lines[3][<<"1", "4", "4">>])
  /\ ~IsJunction(lines[2][<<"1", "1">>])
  /\ ~IsJunction(lines[3][<<"1", "4", "2">>])

\* ------------------------------------------------------------------------ C2
\* C2: once level 1 is populated, for a depth >= 1, it holds exactly the four
\* addresses "1".."4", each a plain node with the one plain polyline of its
\* orientation: no connector junction at level 1.
C2_Level1Plain ==
  (level >= 1 /\ pc \in {"loop", "iter", "done"}) =>
    /\ DOMAIN lines[1] = {<<"1">>, <<"2">>, <<"3">>, <<"4">>}
    /\ Cardinality(DOMAIN lines[1]) = 4
    /\ \A k \in 1..4 :
         /\ ~IsJunction(lines[1][<<Digits[k + 1]>>])
         /\ lines[1][<<Digits[k + 1]>>] =
              << <<pattern.pattern_X[k]>>, <<pattern.pattern_Y[k]>> >>

C2_Witness ==
  /\ pc = "done"
  /\ level >= 1
  /\ Len(lines) = level
  /\ Len(lines[1][<<"1">>][1]) = 1

\* ------------------------------------------------------------------------ C3
\* C3 as stated: a built level d holds exactly 4^(d-1) addresses.
C3_AsStated ==
  \A d \in DOMAIN lines : Built(d) => Cardinality(DOMAIN lines[d]) = Pow2(2 * (d - 1))

\* C3 amended: a built level d holds exactly 4^d addresses (4^(d-1) under
\* each of the four addresses of level 1), each reached from level 1 by
\* appending one digit per level, and at the end every level 1..depth is there.
C3_LevelSize ==
  /\ \A d \in DOMAIN lines : Built(d) =>
       /\ Cardinality(DOMAIN lines[d]) = Pow2(2 * d)
       /\ \A B \in DOMAIN lines[d] : \A j \in 1..(d - 1) :
            SubSeq(B, 1, j) \in DOMAIN lines[j]
       /\ \A r \in DOMAIN lines[1] :
            Cardinality({B \in DOMAIN lines[d] : SubSeq(B, 1, 1) = r}) = Pow2(2 * (d - 1))
  /\ pc = "done" => \A d \in 1..level : Built(d)

C3_Witness ==
  /\ pc = "done"
  /\ level >= 3
  /\ Cardinality(DOMAIN lines[3]) = 64
  /\ Cardinality(DOMAIN lines[2]) = 16

\* ------------------------------------------------------------------------ C4
\* C4: in every state, an address stored at level d is a string of exactly d
\* digits in 1..4 and its length-(d-1) prefix is at level d-1; once level d+1
\* is built every address of level d is a strict prefix of exactly four
\* addresses of level d+1, its children with last digit 1, 2, 3 and 4.
C4_Addresses ==
  /\ \A d \in DOMAIN lines : \A A \in DOMAIN lines[d] :
       /\ Len(A) = d
       /\ \A i \in 1..Len(A) : A[i] \in DigitChars
       /\ d >= 2 => DropLast(A) \in DOMAIN lines[d - 1]
  /\ \A d \in DOMAIN lines : (d + 1 \in DOMAIN lines /\ Built(d + 1)) =>
       \A A \in DOMAIN lines[d] :
          Cardinality({c \in DigitChars : Append(A, c) \in DOMAIN lines[d + 1]}) = 4
  /\ pc \in {"loop", "done"} =>
       \A d \in DOMAIN lines : d + 1 \in DOMAIN lines =>
          \A A \in DOMAIN lines[d] :
             LET ext == {B \in DOMAIN lines[d + 1] : IsStrictPrefix(A, B)}
             IN  /\ Cardinality(ext) = 4
                 /\ ext = {Append(A, c) : c \in DigitChars}

\* level 3 is being built on a complete level 2
C4_Witness ==
  /\ pc = "iter"
  /\ n = 3
  /\ Len(todo) = 5
  /\ Cardinality(DOMAIN lines[3]) = 44
  /\ Cardinality(DOMAIN lines[2]) = 16

\* ------------------------------------------------------------------------ C5
\* C5: a Steinhaus constructed with depth < 1 fails with InvalidLevelError at
\* entry, before any level is populated.
C5_InvalidLevel ==
  (level < 1 /\ pc \in {"level1", "loop", "iter", "done"}) =>
    (raised = "InvalidLevelError" /\ lines = <<>>)

\* ------------------------------------------------------------------------ C6
BadSeed == Len(rootPattern_X) < 3 \/ Len(rootPattern_X) # Len(rootPattern_Y)

\* C6: a Pattern (also through Steinhaus) built from a seed of fewer than 3
\* points or of unequal X and Y lengths fails with InvalidPatternError, before
\* any reflection, orientation or level is computed.
C6_InvalidPattern ==
  (BadSeed /\ pc \in {"level1", "loop", "iter", "done"}) =>
    (raised = "InvalidPatternError" /\ pattern = NoPattern /\ lines = <<>>)

\* ------------------------------------------------------------------------ C7
IsDefaultSeed ==
  /\ rootPattern_X = InUnits(DefaultSeed.X)
  /\ rootPattern_Y = InUnits(DefaultSeed.Y)

\* 1/2 + 1/4 + ... over the positions 0..m-2 of the prefix of a level-m address
RECURSIVE OffsetBound(_)
OffsetBound(m) == IF m <= 1 THEN 0 ELSE OffsetBound(m - 1) + One \div Pow2(m - 1)

InViewport(p) == \A i \in 1..Len(p) : Abs(p[i]) <= One

\* C7: for the default seed, the offset of every node of level m is at most
\* 1/2 + ... + 1/2^(m-1) per axis in absolute value, and every point of every
\* polyline the node holds (plain, or connector-start and connector-end) has
\* both coordinates in [-1, 1].
C7_Viewport ==
  IsDefaultSeed =>
    \A m \in DOMAIN lines :
      /\ \A A \in {DropLast(B) : B \in DOMAIN lines[m]} :
           LET off == getOffset(A)
           IN  Abs(off[1]) <= OffsetBound(m) /\ Abs(off[2]) <= OffsetBound(m)
      /\ \A B \in DOMAIN lines[m] :
           LET node == lines[m][B]
           IN  \A c \in 1..2 : \A j \in 1..Len(node[c]) : InViewport(node[c][j])

\* the corner node "111" of a finished run: its offset reaches the bound
C7_Witness ==
  /\ IsDefaultSeed
  /\ pc = "done"
  /\ level >= 3
  /\ <<"1", "1", "1">> \in DOMAIN lines[3]
  /\ getOffset(<<"1", "1">>) = <<0 - OffsetBound(3), OffsetBound(3)>>
  /\ OffsetBound(3) = 3 * Quarter

\* ------------------------------------------------------------------------ C8
\* C8: while levels are generated, a step leaves every complete level and
\* the three pattern families unchanged and keeps every entry already stored
\* in the level under construction; when the constructor returns, every
\* level 1..depth is present.
C8_Frame ==
  [][ /\ pc \in {"loop", "iter"} =>
           /\ pattern' = pattern
           /\ \A m \in DOMAIN lines :
                /\ m \in DOMAIN lines'
                /\ Built(m) => lines'[m] = lines[m]
                /\ (pc = "iter" /\ pc' = "iter") =>
                     \A B \in DOMAIN lines[m] :
                        B \in DOMAIN lines'[m] /\ lines'[m][B] = lines[m][B]
      /\ pc' = "done" =>
           \A m \in 1..level : m \in DOMAIN lines' /\ DOMAIN lines'[m] # {}
    ]_vars

\* a finished run that built three levels or more on top of level 1
C8_Witness ==
  /\ pc = "done"
  /\ level >= 3
  /\ DOMAIN lines = 1..level
  /\ \A m \in 1..level : DOMAIN lines[m] # {}

\* ------------------------------------------------------------------------ C9
\* C9: whatever order the addresses of each level were iterated in, the
\* finished run holds the mapping that the run iterating every level in
\* increasing key order produces from the same seed and depth.
C9_OrderIndependent ==
  pc = "done" =>
    /\ pattern = PatternInit(rootPattern_X, rootPattern_Y)
    /\ lines = SortedRun(rootPattern_X, rootPattern_Y, level)

\* level 3 is being generated in an order that is not the increasing one
C9_Witness ==
  /\ pc = "iter"
  /\ n = 3
  /\ Len(todo) = 16
  /\ todo # SortKeys(DOMAIN lines[2], IncreasingDigits)
  /\ todo[1] = <<"3", "3">>
  /\ todo[2] = <<"3", "2">>

\* ----------------------------------------------------------------------- C10
\* the polylines of level m: <<address, index within the node>>
Polylines(m) ==
  {pl \in (DOMAIN lines[m]) \X {1, 2} : pl[2] <= Len(lines[m][pl[1]][1])}

FirstPoint(m, pl) ==
  << lines[m][pl[1]][1][pl[2]][1], lines[m][pl[1]][2][pl[2]][1] >>

LastPoint(m, pl) ==
  << Last(lines[m][pl[1]][1][pl[2]]), Last(lines[m][pl[1]][2][pl[2]]) >>

\* <<address, first point, last point>> of every polyline of level m
Ends(m) == {<<pl[1], FirstPoint(m, pl), LastPoint(m, pl)>> : pl \in Polylines(m)}

\* C10: for the default seed, in a finished run, each endpoint of each
\* polyline of a level coincides with an endpoint of exactly one other
\* polyline of that level, and never with the polyline's own other endpoint;
\* the polyline met at an endpoint of a junction's polyline is in another node.
C10_Closed ==
  (IsDefaultSeed /\ pc = "done") =>
    \A m \in DOMAIN lines :
      LET E == Ends(m)
      IN  /\ Cardinality(E) = Cardinality(Polylines(m))
          /\ \A x \in E : \A e \in 2..3 :
               LET met == {y \in E : y # x /\ (y[2] = x[e] \/ y[3] = x[e])}
               IN  /\ Cardinality(met) = 1
                   /\ x[2] # x[3]
                   /\ IsJunction(lines[m][x[1]]) => \A y \in met : y[1] # x[1]

\* a finished default-seed run whose third level has junctions: 84 polylines
C10_Witness ==
  /\ IsDefaultSeed
  /\ pc = "done"
  /\ level >= 3
  /\ Cardinality(Polylines(3)) = 84
  /\ Cardinality(Polylines(1)) = 4

====
